---- MODULE Spec2Model ----
(***************************************************************************)
(* Model of bank2ynab/plugins/hsbc_hk_cc_plugin.py: the conversion of an   *)
(* HSBC Hong Kong credit card statement (PDF) into a CSV table.            *)
(*                                                                         *)
(* Python strings are sequences of one-character strings, so that          *)
(* slicing, strip(), join() and the parsers work on characters.  A value   *)
(* that is not a string (None, a raised exception) is a one-element        *)
(* sequence holding a longer token, which no string of characters equals.  *)
(***************************************************************************)
EXTENDS Integers, Sequences, FiniteSets, TLC

VARIABLES
    pc,                  \* position of the conversion call
    run,                 \* number of the current conversion call (1-based)
    pdf,                 \* the document: a sequence of pages
    config_dict,         \* the configuration: [date_format]
    today,               \* date.today() during the current call
    open_pdfs,           \* documents opened by pdfplumber.open and not closed
    page_num,            \* enumerate(pdf.pages, start=1): last page visited
    statement_date_str,  \* local of extract_tables_and_statement_date
    searched,            \* pages on which extract_statement_date_str was called
    tables,              \* local of extract_tables_and_statement_date
    statement_date,      \* result of extract_tables_and_statement_date
    flattened_table,     \* result of flatten_and_clean_table
    grouped,             \* df after groupby(...).agg(...).reset_index
    df,                  \* result of convert_and_process_dataframe
    csv,                 \* the file written by df.to_csv
    error,               \* the exception that ended the call, if any
    warnings,            \* messages passed to logging.warning
    history,             \* outcome (csv, error) of each earlier call
    call,                \* arguments of a direct call of one method
    ret                  \* value returned (or exception raised) by that call

vars ==
    <<pc, run, pdf, config_dict, today, open_pdfs, page_num,
      statement_date_str, searched, tables, statement_date, flattened_table,
      grouped, df, csv, error, warnings, history, call, ret>>

-----------------------------------------------------------------------------
(* Bounds of the model *)

MaxPages == 2
MaxRows == 3
MaxPayee == 2
MaxAmountLen == 3

-----------------------------------------------------------------------------
(* String literals of the source *)

S_Location == <<"L", "o", "c", "a", "t", "i", "o", "n", ":", " ">>
S_Country == <<"C", "o", "u", "n", "t", "r", "y", ":", " ">>
S_OrigAmount ==
    <<"O", "r", "i", "g", "i", "n", "a", "l", " ", "a", "m", "o", "u", "n",
      "t", ":", " ">>
S_Details == <<"D", "e", "t", "a", "i", "l", "s", ":", " ">>
S_CommaSp == <<",", " ">>
S_SemiSp == <<";", " ">>
S_Slashes == <<" ", "/", "/", " ">>
import_info_text ==
    <<"[", "I", "m", "p", "o", "r", "t", "e", "d", " ", "f", "r", "o", "m",
      " ", "P", "D", "F", " ", "s", "t", "a", "t", "e", "m", "e", "n", "t",
      "]">>
FOOTER_MARKER ==
    <<"*", "F", "o", "r", "c", "r", "e", "d", "i", "t", "c", "a", "r", "d",
      "t", "r", "a", "n", "s", "a", "c", "t", "i", "o", "n", "s", "e", "f",
      "f", "e", "c", "t", "e", "d", "i", "n", "c", "u", "r", "r", "e", "n",
      "c", "i", "e", "s">>
S_CR == <<"C", "R">>
S_Minus == <<"-">>
S_Space == <<" ">>

COLUMNS ==
    <<"post_date", "trans_date", "payee", "location", "country",
      "original_currency", "original_amount", "hkd_amount">>

None == <<"None">>
AssertionError == <<"AssertionError">>
ValueError == <<"ValueError">>

-----------------------------------------------------------------------------
(* Python built-ins used by the source *)

Whitespace == {" ", "\t", "\n"}

RECURSIVE LStrip(_)
LStrip(s) ==
    IF s # <<>> /\ Head(s) \in Whitespace THEN LStrip(Tail(s)) ELSE s

RECURSIVE RStrip(_)
RStrip(s) ==
    IF s # <<>> /\ s[Len(s)] \in Whitespace
    THEN RStrip(SubSeq(s, 1, Len(s) - 1))
    ELSE s

\* str.strip()
Strip(s) == RStrip(LStrip(s))

\* sep.join(list)
RECURSIVE Join(_, _)
Join(sep, list) ==
    IF list = <<>> THEN <<>>
    ELSE IF Len(list) = 1 THEN list[1]
    ELSE list[1] \o sep \o Join(sep, Tail(list))

\* s.replace(" ", "")
RECURSIVE RemoveSpaces(_)
RemoveSpaces(s) ==
    IF s = <<>> THEN <<>>
    ELSE IF Head(s) = " " THEN RemoveSpaces(Tail(s))
    ELSE <<Head(s)>> \o RemoveSpaces(Tail(s))

\* needle in s
Contains(needle, s) ==
    \E i \in 1..(Len(s) - Len(needle) + 1) :
        SubSeq(s, i, i + Len(needle) - 1) = needle

\* s[-n:]
LastChars(s, n) ==
    IF Len(s) <= n THEN s ELSE SubSeq(s, Len(s) - n + 1, Len(s))

\* s[:-n]
DropLastChars(s, n) ==
    IF Len(s) <= n THEN <<>> ELSE SubSeq(s, 1, Len(s) - n)

\* list[n:] of a list (1-based here: drop the first n elements)
DropFirst(list, n) ==
    IF Len(list) <= n THEN <<>> ELSE SubSeq(list, n + 1, Len(list))

\* smallest element of a non-empty set of integers
Min(S) == CHOOSE x \in S : \A y \in S : x <= y

-----------------------------------------------------------------------------
(* datetime: dates are [year, month, day] *)

DigitChars == <<"0", "1", "2", "3", "4", "5", "6", "7", "8", "9">>
IsDigit(c) == \E n \in 1..10 : DigitChars[n] = c
DigitVal(c) == (CHOOSE n \in 1..10 : DigitChars[n] = c) - 1
DigitChar(n) == DigitChars[n + 1]

UpperChars ==
    <<"A", "B", "C", "D", "E", "F", "G", "H", "I", "J", "K", "L", "M", "N",
      "O", "P", "Q", "R", "S", "T", "U", "V", "W", "X", "Y", "Z">>
LowerChars ==
    <<"a", "b", "c", "d", "e", "f", "g", "h", "i", "j", "k", "l", "m", "n",
      "o", "p", "q", "r", "s", "t", "u", "v", "w", "x", "y", "z">>

\* c.lower()
LowerChar(c) ==
    IF \E n \in 1..26 : UpperChars[n] = c
    THEN LowerChars[CHOOSE n \in 1..26 : UpperChars[n] = c]
    ELSE c

LowerStr(s) == [i \in 1..Len(s) |-> LowerChar(s[i])]

\* calendar.month_abbr, which %b matches ignoring case
MonthAbbr ==
    <<
      <<"J", "a", "n">>, <<"F", "e", "b">>, <<"M", "a", "r">>,
      <<"A", "p", "r">>, <<"M", "a", "y">>, <<"J", "u", "n">>,
      <<"J", "u", "l">>, <<"A", "u", "g">>, <<"S", "e", "p">>,
      <<"O", "c", "t">>, <<"N", "o", "v">>, <<"D", "e", "c">>
    >>

\* month number of a three-letter abbreviation, 0 when it is none
MonthNumber(s) ==
    IF \E m \in 1..12 : LowerStr(MonthAbbr[m]) = LowerStr(s)
    THEN CHOOSE m \in 1..12 : LowerStr(MonthAbbr[m]) = LowerStr(s)
    ELSE 0

IsLeap(y) == (y % 4 = 0 /\ y % 100 # 0) \/ y % 400 = 0

DaysInMonth(y, m) ==
    IF m = 2 THEN (IF IsLeap(y) THEN 29 ELSE 28)
    ELSE IF m \in {4, 6, 9, 11} THEN 30
    ELSE 31

\* date(y, m, d) does not raise ValueError
ValidDate(y, m, d) == m \in 1..12 /\ d >= 1 /\ d <= DaysInMonth(y, m)

NoDate == [ok |-> FALSE, year |-> 0, month |-> 0, day |-> 0]
MkDate(y, m, d) == [ok |-> TRUE, year |-> y, month |-> m, day |-> d]

\* date comparison d1 < d2
Before(d1, d2) ==
    \/ d1.year < d2.year
    \/ d1.year = d2.year /\ d1.month < d2.month
    \/ d1.year = d2.year /\ d1.month = d2.month /\ d1.day < d2.day

\* %d of strptime: 3[0-1]|[1-2]\d|0[1-9]|[1-9]| [1-9]; every way the start of
\* s matches, as [n: characters consumed, d: the day]
DayOptions(s) ==
    {[n |-> 2, d |-> 10 * DigitVal(s[1]) + DigitVal(s[2])] : x \in
        {y \in {1} : /\ Len(s) >= 2
                      /\ IsDigit(s[1]) /\ IsDigit(s[2])
                      /\ 10 * DigitVal(s[1]) + DigitVal(s[2]) \in 1..31}}
    \cup
    {[n |-> 1, d |-> DigitVal(s[1])] : x \in
        {y \in {1} : /\ Len(s) >= 1
                      /\ IsDigit(s[1]) /\ DigitVal(s[1]) \in 1..9}}
    \cup
    {[n |-> 2, d |-> DigitVal(s[2])] : x \in
        {y \in {1} : /\ Len(s) >= 2
                      /\ s[1] = " "
                      /\ IsDigit(s[2]) /\ DigitVal(s[2]) \in 1..9}}

\* datetime.strptime(s, "%d%b").date(): the year defaults to 1900
strptime_d_b(s) ==
    LET opts == {o \in DayOptions(s) :
                    /\ Len(s) = o.n + 3
                    /\ MonthNumber(DropFirst(s, o.n)) # 0}
    IN  IF opts = {} THEN NoDate
        ELSE LET o == CHOOSE o \in opts : TRUE
                 m == MonthNumber(DropFirst(s, o.n))
             IN  IF ValidDate(1900, m, o.d) THEN MkDate(1900, m, o.d)
                 ELSE NoDate

\* the rest of "%d %b %Y" after the day: \s+ month \s+ \d\d\d\d, to the end
MonthYearOf(rest) ==
    LET r2 == LStrip(rest)
        r3 == DropFirst(r2, 3)
        r4 == LStrip(r3)
    IN  IF /\ rest # <<>> /\ Head(rest) \in Whitespace
           /\ Len(r2) >= 3 /\ MonthNumber(SubSeq(r2, 1, 3)) # 0
           /\ r3 # <<>> /\ Head(r3) \in Whitespace
           /\ Len(r4) = 4 /\ \A i \in 1..4 : IsDigit(r4[i])
        THEN [ok |-> TRUE,
              month |-> MonthNumber(SubSeq(r2, 1, 3)),
              year |-> 1000 * DigitVal(r4[1]) + 100 * DigitVal(r4[2])
                       + 10 * DigitVal(r4[3]) + DigitVal(r4[4])]
        ELSE [ok |-> FALSE, month |-> 0, year |-> 0]

\* datetime.strptime(s, "%d %b %Y").date()
strptime_d_b_Y(s) ==
    LET opts == {o \in DayOptions(s) : MonthYearOf(DropFirst(s, o.n)).ok}
    IN  IF opts = {} THEN NoDate
        ELSE LET o == CHOOSE o \in opts : TRUE
                 my == MonthYearOf(DropFirst(s, o.n))
             IN  IF ValidDate(my.year, my.month, o.d) /\ my.year >= 1
                 THEN MkDate(my.year, my.month, o.d)
                 ELSE NoDate

TwoDigits(n) == <<DigitChar((n \div 10) % 10), DigitChar(n % 10)>>
FourDigits(n) == TwoDigits(n \div 100) \o TwoDigits(n % 100)

\* d.strftime(fmt) for the directives %d, %m, %Y and %%
RECURSIVE strftime(_, _)
strftime(d, fmt) ==
    IF fmt = <<>> THEN <<>>
    ELSE IF Head(fmt) = "%" /\ Len(fmt) >= 2
    THEN (CASE fmt[2] = "d" -> TwoDigits(d.day)
            [] fmt[2] = "m" -> TwoDigits(d.month)
            [] fmt[2] = "Y" -> FourDigits(d.year)
            [] fmt[2] = "%" -> <<"%">>
            [] OTHER -> <<"%", fmt[2]>>)
         \o strftime(d, DropFirst(fmt, 2))
    ELSE <<Head(fmt)>> \o strftime(d, Tail(fmt))

\* the year parse_and_add_year_to_date gives a parsed date
ResolvedYear(parsed_date, stmt_date) ==
    IF parsed_date.month = 12 /\ stmt_date.month = 1
    THEN stmt_date.year - 1
    ELSE stmt_date.year

parse_and_add_year_to_date(date_string, stmt_date, output_date_format) ==
    LET parsed_date == strptime_d_b(date_string)
        y == ResolvedYear(parsed_date, stmt_date)
    IN  IF ~parsed_date.ok THEN ValueError
        ELSE IF ~ValidDate(y, parsed_date.month, parsed_date.day)
        THEN ValueError
        ELSE strftime(MkDate(y, parsed_date.month, parsed_date.day),
                      output_date_format)

-----------------------------------------------------------------------------
(* The record formatter's string transforms *)

\* faulty variant of DetailsInfo: the entries are joined without strip()
DetailsInfo_Unstripped(payee_info) ==
    Join(S_CommaSp,
         [i \in 1..(Len(payee_info) - 1) |-> payee_info[i + 1]])

\* the first entry of the memo list: location and country
LocationPart(location, country) ==
    IF location # <<>>
    THEN <<S_Location \o location
            \o (IF country # <<>> THEN S_CommaSp \o country ELSE <<>>)>>
    ELSE IF country # <<>> THEN <<S_Country \o country>>
    ELSE <<>>

\* ", ".join(x.strip() for x in payee_info[1:])
DetailsInfo(payee_info) ==
    Join(S_CommaSp,
         [i \in 1..(Len(payee_info) - 1) |-> Strip(payee_info[i + 1])])

create_memo(payee_info, location, country, original_currency, original_amount) ==
    LET memo1 == LocationPart(location, country)
        memo2 == memo1 \o
                 (IF original_currency # <<>>
                  THEN <<S_OrigAmount \o original_amount \o S_Space
                          \o original_currency>>
                  ELSE <<>>)
        memo3 == memo2 \o
                 (IF Len(payee_info) > 1
                  THEN <<S_Details \o DetailsInfo(payee_info)>>
                  ELSE <<>>)
        memo_str == Join(S_SemiSp, memo3)
    IN  IF original_currency # <<>> /\ original_amount = <<>>
        THEN AssertionError
        ELSE IF memo_str # <<>>
        THEN memo_str \o S_Slashes \o import_info_text
        ELSE import_info_text

\* faulty variant of add_sign_to_transaction: only the last character is tested
add_sign_LastCharOnly(amount) ==
    IF LastChars(amount, 1) = <<"R">>
    THEN DropLastChars(amount, 2)
    ELSE S_Minus \o amount

add_sign_to_transaction(amount) ==
    IF LastChars(amount, 2) = S_CR
    THEN DropLastChars(amount, 2)
    ELSE S_Minus \o amount

-----------------------------------------------------------------------------
(* Page scanner and table extractor *)

\* A page, as the PDF backend shows it to the plugin:
\*   label    - page.search("Statement date") finds the label
\*   box_text - the text extract_text() returns for the box under the label
\*   table    - crop(bbox).extract_table(...): rows of cells, <<>> when the
\*              backend finds no table
NoError ==
    [type |-> "None", at |-> "None", page_num |-> 0, actual |-> 0,
     expected |-> 0]

TableSizeError(n, actual, expected) ==
    [type |-> "TableSizeError", at |-> "extract_tables", page_num |-> n,
     actual |-> actual, expected |-> expected]

ErrorAt(type, at) ==
    [type |-> type, at |-> at, page_num |-> 0, actual |-> 0, expected |-> 0]

NoFile == [written |-> FALSE, header |-> <<>>, records |-> <<>>]

W_NoStatementDate == "Statement date not found, defaulting to using today's date."
W_NoTransactions == "No transactions found in the extracted table."

extract_statement_date_str(page) ==
    IF page.label THEN Strip(page.box_text) ELSE <<>>

\* faulty variant of SearchesForDate: every page is searched
SearchesForDate_Always(date_str) == TRUE

\* faulty variant of PageNumber: enumerate without start=1
PageNumber_FromZero(visited) == visited

\* faulty variant of StatementDateOf: the text found is ignored
StatementDateOf_Today(date_str, current_date) == current_date

\* "if not statement_date_str": the page is searched for the label
SearchesForDate(date_str) == date_str = <<>>

\* enumerate(pdf.pages, start=1): the number of the page after `visited` pages
PageNumber(visited) == visited + 1

\* the column-count check of one extracted page
WrongSize(extracted_page, table_cols) ==
    extracted_page # <<>> /\ Len(extracted_page[1]) # Len(table_cols)

\* lines 134-142: the statement date of the document
StatementDateOf(date_str, current_date) ==
    IF date_str = <<>> THEN current_date ELSE strptime_d_b_Y(date_str)

-----------------------------------------------------------------------------
(* Table normaliser *)

\* [row for page in table for row in page[1:]]
RECURSIVE DropHeadersAndFlatten(_)
DropHeadersAndFlatten(table) ==
    IF table = <<>> THEN <<>>
    ELSE DropFirst(Head(table), 1) \o DropHeadersAndFlatten(Tail(table))

\* ["" if cell is None else cell for cell in row] for every row
ReplaceNone(rows) ==
    [r \in 1..Len(rows) |->
        [c \in 1..Len(rows[r]) |->
            IF rows[r][c] = None THEN <<>> ELSE rows[r][c]]]

NotAllEmpty(row) == \E c \in 1..Len(row) : row[c] # <<>>

\* [row for row in flattened_table if any(cell != "" for cell in row)]
DropEmptyRows(rows) == SelectSeq(rows, NotAllEmpty)

\* row[:2] == ["", ""]
Undated(row) == SubSeq(row, 1, 2) = << <<>>, <<>> >>

\* itertools.dropwhile(lambda row: row[:2] == ["", ""], flattened_table)
DropPreviousBalance(rows) ==
    LET dated == {i \in 1..Len(rows) : ~Undated(rows[i])}
    IN  IF dated = {} THEN <<>> ELSE SubSeq(rows, Min(dated), Len(rows))

IsFooter(row) == Contains(FOOTER_MARKER, RemoveSpaces(Join(<<>>, row)))

\* itertools.takewhile(lambda row: marker not in ..., cleaned_table)
DropFooter(rows) ==
    LET footers == {i \in 1..Len(rows) : IsFooter(rows[i])}
    IN  IF footers = {} THEN rows ELSE SubSeq(rows, 1, Min(footers) - 1)

flatten_and_clean_table(table) ==
    DropFooter(
        DropPreviousBalance(
            DropEmptyRows(ReplaceNone(DropHeadersAndFlatten(table)))))

-----------------------------------------------------------------------------
(* Grouping: df.groupby(key.cumsum()).agg(aggregators).reset_index(drop=True) *)

\* position of a column in a list of column names
ColumnIndex(columns, name) ==
    CHOOSE c \in 1..Len(columns) : columns[c] = name

\* faulty variant of StartsGroup: both dates are required
StartsGroup_BothDates(row) ==
    /\ row[ColumnIndex(COLUMNS, "post_date")] # <<>>
    /\ row[ColumnIndex(COLUMNS, "trans_date")] # <<>>

\* (df["post_date"] != "") | (df["trans_date"] != "")
StartsGroup(row) ==
    \/ row[ColumnIndex(COLUMNS, "post_date")] # <<>>
    \/ row[ColumnIndex(COLUMNS, "trans_date")] # <<>>

\* .cumsum(): the group key of row i
GroupKey(table, i) == Cardinality({j \in 1..i : StartsGroup(table[j])})

\* the elements of a finite set of integers, ascending
RECURSIVE Ascending(_)
Ascending(S) ==
    IF S = {} THEN <<>> ELSE <<Min(S)>> \o Ascending(S \ {Min(S)})

\* one aggregated row: "first" for every column, list for payee
Aggregate(table, members) ==
    [c \in 1..Len(COLUMNS) |->
        IF COLUMNS[c] = "payee"
        THEN [j \in 1..Len(members) |-> table[members[j]][c]]
        ELSE table[members[1]][c]]

\* the grouped frame: one row per key, in ascending key order
GroupRows(table) ==
    LET keys == Ascending({GroupKey(table, i) : i \in 1..Len(table)})
    IN  [k \in 1..Len(keys) |->
            Aggregate(table,
                Ascending({i \in 1..Len(table) :
                              GroupKey(table, i) = keys[k]}))]

-----------------------------------------------------------------------------
(* Record formatter: a frame is [columns, rows], rows aligned to columns *)

\* faulty variant of AssignColumn: the column is always added
AssignColumn_AlwaysAdds(frame, name, values) ==
    [columns |-> Append(frame.columns, name),
     rows |-> [r \in 1..Len(frame.rows) |-> Append(frame.rows[r], values[r])]]

\* df[name] = values: replaces the column, or adds it after the others
AssignColumn(frame, name, values) ==
    IF \E c \in 1..Len(frame.columns) : frame.columns[c] = name
    THEN [columns |-> frame.columns,
          rows |-> [r \in 1..Len(frame.rows) |->
                      [frame.rows[r] EXCEPT
                          ![ColumnIndex(frame.columns, name)] = values[r]]]]
    ELSE [columns |-> Append(frame.columns, name),
          rows |-> [r \in 1..Len(frame.rows) |->
                      Append(frame.rows[r], values[r])]]

\* df[name] as a list
Column(frame, name) ==
    [r \in 1..Len(frame.rows) |->
        frame.rows[r][ColumnIndex(frame.columns, name)]]

\* lines 196-205: the memo of every row
MemoColumn(frame) ==
    [r \in 1..Len(frame.rows) |->
        create_memo(Column(frame, "payee")[r],
                    Column(frame, "location")[r],
                    Column(frame, "country")[r],
                    Column(frame, "original_currency")[r],
                    Column(frame, "original_amount")[r])]

\* lines 208-214: one date column resolved
DateColumn(frame, name, stmt_date, output_date_format) ==
    [r \in 1..Len(frame.rows) |->
        parse_and_add_year_to_date(Column(frame, name)[r], stmt_date,
                                   output_date_format)]

\* faulty variant of IsEmpty: the empty frame is not told apart
IsEmpty_Never(table) == FALSE

\* df.empty, for the frame built from `table`
IsEmpty(table) == table = <<>>

AnyRaised(values, exc) == \E r \in 1..Len(values) : values[r] = exc

\* convert_and_process_dataframe: [error, grouped, frame, warned]
convert_and_process_dataframe(table, table_cols, stmt_date, date_format) ==
    LET empty == [columns |-> table_cols, rows |-> <<>>]
        df0 == [columns |-> table_cols, rows |-> GroupRows(table)]
        memo == MemoColumn(df0)
        df1 == AssignColumn(df0, "memo", memo)
        df2 == AssignColumn(df1, "payee",
                   [r \in 1..Len(df1.rows) |-> Column(df1, "payee")[r][1]])
        post == DateColumn(df2, "post_date", stmt_date, date_format)
        trans == DateColumn(df2, "trans_date", stmt_date, date_format)
        df3 == AssignColumn(AssignColumn(df2, "post_date", post),
                            "trans_date", trans)
        df4 == AssignColumn(df3, "hkd_amount",
                   [r \in 1..Len(df3.rows) |->
                       add_sign_to_transaction(Column(df3, "hkd_amount")[r])])
    IN  IF IsEmpty(table)
        THEN [error |-> NoError, grouped |-> <<>>, frame |-> empty,
              warned |-> TRUE]
        ELSE IF AnyRaised(memo, AssertionError)
        THEN [error |-> ErrorAt("AssertionError", "create_memo"),
              grouped |-> df0.rows, frame |-> empty, warned |-> FALSE]
        ELSE IF AnyRaised(post, ValueError) \/ AnyRaised(trans, ValueError)
        THEN [error |-> ErrorAt("ValueError", "parse_and_add_year_to_date"),
              grouped |-> df0.rows, frame |-> empty, warned |-> FALSE]
        ELSE [error |-> NoError, grouped |-> df0.rows, frame |-> df4,
              warned |-> FALSE]

\* df.to_csv(new_path, index=False): a header line, then one line per row
to_csv(frame) ==
    [written |-> TRUE, header |-> frame.columns, records |-> frame.rows]

-----------------------------------------------------------------------------
(* Inputs: statement contents the PDF backend can return *)

S_ACME == <<"A", "C", "M", "E", " ", "S", "T", "O", "R", "E">>
S_ref == <<" ", "r", "e", "f", " ", "1", "2", "3", " ">>
S_HK == <<"H", "O", "N", "G", " ", "K", "O", "N", "G">>
S_US == <<"U", "S">>
S_USD == <<"U", "S", "D">>
S_12 == <<"1", "2", ".", "0", "0">>
S_1234 == <<"1", ",", "2", "3", "4", ".", "5", "6">>
S_1234CR == <<"1", ",", "2", "3", "4", ".", "5", "6", "C", "R">>
S_prev ==
    <<"P", "R", "E", "V", "I", "O", "U", "S", " ", "B", "A", "L", "A", "N",
      "C", "E">>
S_footer1 ==
    <<"*", "F", "o", "r", " ", "c", "r", "e", "d", "i", "t", " ", "c", "a",
      "r", "d", " ", "t", "r", "a", "n", "s", "a", "c", "t", "i", "o", "n",
      "s">>
S_footer2 ==
    <<"e", "f", "f", "e", "c", "t", "e", "d", " ", "i", "n", " ", "c", "u",
      "r", "r", "e", "n", "c", "i", "e", "s", " ", "o", "t", "h", "e", "r">>
S_15Dec == <<"1", "5", "D", "e", "c">>
S_05Jan == <<"0", "5", "J", "a", "n">>
S_29Feb == <<"2", "9", "F", "E", "B">>
S_10Jan2024 == <<" ", "1", "0", " ", "J", "a", "n", " ", "2", "0", "2", "4", "\n">>
S_page == <<"P", "a", "g", "e", " ", "1", " ", "o", "f", " ", "3">>
F_dmY == <<"%", "d", "/", "%", "m", "/", "%", "Y">>
F_Ymd == <<"%", "Y", "-", "%", "m", "-", "%", "d">>

Header(n) == [c \in 1..n |-> <<"H">>]

R_prev == <<None, None, S_prev, None, None, None, None, S_1234>>
R_buy == <<S_15Dec, S_15Dec, S_ACME, S_HK, S_US, None, None, S_1234>>
R_more == <<None, None, S_ref, None, None, None, None, None>>
R_refund == <<S_05Jan, S_05Jan, S_ACME, None, S_US, S_USD, S_12, S_1234CR>>
R_blank == <<None, None, None, None, None, None, None, None>>
R_footer == <<None, None, S_footer1, S_footer2, None, None, None, None>>
R_nocur == <<S_05Jan, S_05Jan, S_ACME, None, None, S_USD, None, S_12>>
R_leap == <<S_29Feb, S_29Feb, S_ACME, None, None, None, None, S_12>>
R_postonly == <<S_05Jan, None, S_ACME, None, None, None, None, S_12>>

T_none == <<>>
T_short == <<Header(7), <<S_15Dec, S_15Dec, S_ACME, S_HK, None, None, S_12>> >>
T_blank == <<Header(8), R_prev, R_blank>>
T_tx == <<Header(8), R_prev, R_buy, R_more, R_blank, R_refund, R_footer, R_prev>>
T_nocur == <<Header(8), R_buy, R_nocur>>
T_leap == <<Header(8), R_leap>>

TablePool == {T_none, T_short, T_blank, T_tx, T_nocur, T_leap}

\* what a page shows about the statement date: no label; a label over an
\* empty box; a label over a date; a label over other text
LabelPool ==
    {[label |-> FALSE, box_text |-> <<>>],
     [label |-> TRUE, box_text |-> <<" ">>],
     [label |-> TRUE, box_text |-> S_10Jan2024],
     [label |-> TRUE, box_text |-> S_page]}

PagePool ==
    {[label |-> l.label, box_text |-> l.box_text, table |-> t] :
        l \in LabelPool, t \in TablePool}

\* the sequences over S of length 1..n
SeqsUpTo(S, n) == UNION {[1..k -> S] : k \in 1..n}

\* the days on which the conversion is run
Todays == {MkDate(2024, 1, 20), MkDate(2025, 6, 1)}

NoCall == [fn |-> "None"]

-----------------------------------------------------------------------------
(* The conversion call: _preprocess_file *)

Init ==
    /\ pc = "idle"
    /\ run = 1
    /\ pdf \in SeqsUpTo(PagePool, MaxPages)
    /\ config_dict = [bank_name |-> "hsbc_hk", date_format |-> F_dmY]
    /\ today = MkDate(2024, 1, 20)
    /\ open_pdfs = 0
    /\ page_num = 0
    /\ statement_date_str = <<>>
    /\ searched = {}
    /\ tables = <<>>
    /\ statement_date = NoDate
    /\ flattened_table = <<>>
    /\ grouped = <<>>
    /\ df = [columns |-> <<>>, rows |-> <<>>]
    /\ csv = NoFile
    /\ error = NoError
    /\ warnings = {}
    /\ history = <<>>
    /\ call = NoCall
    /\ ret = <<>>

\* read_pdf_to_dataframe, line 89: pdf = pdfplumber.open(pdf_path)
OpenPdf ==
    /\ pc = "idle"
    /\ open_pdfs' = open_pdfs + 1
    /\ pc' = "scan"
    /\ UNCHANGED <<run, pdf, config_dict, today, page_num,
                   statement_date_str, searched, tables, statement_date,
                   flattened_table, grouped, df, csv, error, warnings,
                   history, call, ret>>

\* extract_tables_and_statement_date, lines 108-132: one turn of the loop
ScanPage ==
    /\ pc = "scan"
    /\ page_num < Len(pdf)
    /\ LET n == PageNumber(page_num)
           page == pdf[page_num + 1]
           search == SearchesForDate(statement_date_str)
           extracted_page == page.table
       IN  /\ page_num' = page_num + 1
           /\ statement_date_str' =
                  IF search THEN extract_statement_date_str(page)
                  ELSE statement_date_str
           /\ searched' = IF search THEN searched \cup {n} ELSE searched
           /\ IF WrongSize(extracted_page, COLUMNS)
              THEN /\ error' = TableSizeError(n, Len(extracted_page[1]),
                                              Len(COLUMNS))
                   /\ pc' = "failed"
                   /\ UNCHANGED tables
              ELSE /\ tables' = IF extracted_page # <<>>
                                THEN Append(tables, extracted_page)
                                ELSE tables
                   /\ UNCHANGED <<pc, error>>
    /\ UNCHANGED <<run, pdf, config_dict, today, open_pdfs, statement_date,
                   flattened_table, grouped, df, csv, warnings, history,
                   call, ret>>

\* extract_tables_and_statement_date, lines 134-144: after the loop
ParseStatementDate ==
    /\ pc = "scan"
    /\ page_num = Len(pdf)
    /\ LET d == StatementDateOf(statement_date_str, today)
       IN  IF d.ok
           THEN /\ statement_date' = d
                /\ pc' = "flatten"
                /\ UNCHANGED error
           ELSE /\ error' = ErrorAt("ValueError", "statement_date")
                /\ pc' = "failed"
                /\ UNCHANGED statement_date
    /\ warnings' = IF statement_date_str = <<>>
                   THEN warnings \cup {W_NoStatementDate}
                   ELSE warnings
    /\ UNCHANGED <<run, pdf, config_dict, today, open_pdfs, page_num,
                   statement_date_str, searched, tables, flattened_table,
                   grouped, df, csv, history, call, ret>>

\* read_pdf_to_dataframe, line 97
FlattenAndClean ==
    /\ pc = "flatten"
    /\ flattened_table' = flatten_and_clean_table(tables)
    /\ pc' = "convert"
    /\ UNCHANGED <<run, pdf, config_dict, today, open_pdfs, page_num,
                   statement_date_str, searched, tables, statement_date,
                   grouped, df, csv, error, warnings, history, call, ret>>

\* read_pdf_to_dataframe, lines 98-101
ConvertAndProcess ==
    /\ pc = "convert"
    /\ LET r == convert_and_process_dataframe(flattened_table, COLUMNS,
                    statement_date, config_dict.date_format)
       IN  /\ grouped' = r.grouped
           /\ error' = r.error
           /\ warnings' = IF r.warned
                          THEN warnings \cup {W_NoTransactions}
                          ELSE warnings
           /\ IF r.error = NoError
              THEN df' = r.frame /\ pc' = "write"
              ELSE pc' = "failed" /\ UNCHANGED df
    /\ UNCHANGED <<run, pdf, config_dict, today, open_pdfs, page_num,
                   statement_date_str, searched, tables, statement_date,
                   flattened_table, csv, history, call, ret>>

\* _preprocess_file, lines 64-72: write the file and return its path
WriteCsv ==
    /\ pc = "write"
    /\ csv' = to_csv(df)
    /\ pc' = "done"
    /\ UNCHANGED <<run, pdf, config_dict, today, open_pdfs, page_num,
                   statement_date_str, searched, tables, statement_date,
                   flattened_table, grouped, df, error, warnings, history,
                   call, ret>>

\* the framework calls _preprocess_file again, on the same file and
\* configuration, at some later time
NextCall ==
    /\ pc \in {"done", "failed"}
    /\ run = 1
    /\ run' = run + 1
    /\ history' = Append(history,
                       [csv |-> csv, error |-> error, today |-> today])
    /\ today' \in Todays
    /\ pc' = "idle"
    /\ page_num' = 0
    /\ statement_date_str' = <<>>
    /\ searched' = {}
    /\ tables' = <<>>
    /\ statement_date' = NoDate
    /\ flattened_table' = <<>>
    /\ grouped' = <<>>
    /\ df' = [columns |-> <<>>, rows |-> <<>>]
    /\ csv' = NoFile
    /\ error' = NoError
    /\ warnings' = {}
    /\ UNCHANGED <<pdf, config_dict, open_pdfs, call, ret>>

Next ==
    \/ OpenPdf
    \/ ScanPage
    \/ ParseStatementDate
    \/ FlattenAndClean
    \/ ConvertAndProcess
    \/ WriteCsv
    \/ NextCall

Spec == Init /\ [][Next]_vars

-----------------------------------------------------------------------------
(* Direct calls of the formatter's methods *)

Idle ==
    /\ run = 1
    /\ pdf = <<>>
    /\ config_dict = [bank_name |-> "hsbc_hk", date_format |-> F_dmY]
    /\ today = MkDate(2024, 1, 20)
    /\ open_pdfs = 0
    /\ page_num = 0
    /\ statement_date_str = <<>>
    /\ searched = {}
    /\ tables = <<>>
    /\ statement_date = NoDate
    /\ flattened_table = <<>>
    /\ grouped = <<>>
    /\ df = [columns |-> <<>>, rows |-> <<>>]
    /\ csv = NoFile
    /\ error = NoError
    /\ warnings = {}
    /\ history = <<>>

pipeline_vars ==
    <<run, pdf, config_dict, today, open_pdfs, page_num, statement_date_str,
      searched, tables, statement_date, flattened_table, grouped, df, csv,
      error, warnings, history>>

PayeePool == {S_ACME, S_ref, <<>>, <<" ">>}

InitMemo ==
    /\ pc = "call"
    /\ call \in
        [fn : {"create_memo"},
         payee_info : SeqsUpTo(PayeePool, MaxPayee),
         location : {<<>>, S_HK, <<" ">>},
         country : {<<>>, S_US},
         original_currency : {<<>>, S_USD},
         original_amount : {<<>>, S_12}]
    /\ ret = <<>>
    /\ Idle

CallCreateMemo ==
    /\ pc = "call"
    /\ call.fn = "create_memo"
    /\ ret' = create_memo(call.payee_info, call.location, call.country,
                          call.original_currency, call.original_amount)
    /\ pc' = "returned"
    /\ UNCHANGED <<call, pipeline_vars>>

NextMemo == CallCreateMemo

SpecMemo == InitMemo /\ [][NextMemo]_vars

AmountChars == {"1", ".", "C", "R", "-"}

InitSign ==
    /\ pc = "call"
    /\ call \in
        [fn : {"add_sign_to_transaction"},
         amount : {<<>>, S_1234, S_1234CR}
                  \cup SeqsUpTo(AmountChars, MaxAmountLen)]
    /\ ret = <<>>
    /\ Idle

CallAddSign ==
    /\ pc = "call"
    /\ call.fn = "add_sign_to_transaction"
    /\ ret' = add_sign_to_transaction(call.amount)
    /\ pc' = "returned"
    /\ UNCHANGED <<call, pipeline_vars>>

NextSign == CallAddSign

SpecSign == InitSign /\ [][NextSign]_vars

\* a transaction date as the statement prints it: two digits and the month
DayMonthText(d, m) == TwoDigits(d) \o MonthAbbr[m]

StatementDates ==
    {MkDate(2024, 1, 10), MkDate(2024, 3, 10), MkDate(2023, 3, 10),
     MkDate(2025, 1, 10)}

\* the statement of stmt_date can carry a transaction dated day d of month m
OnStatement(d, m, stmt_date) ==
    \E y \in {stmt_date.year - 1, stmt_date.year} :
        /\ ValidDate(y, m, d)
        /\ ~Before(stmt_date, MkDate(y, m, d))
        /\ Before(MkDate(stmt_date.year - 1, stmt_date.month, stmt_date.day),
                  MkDate(y, m, d))

InitDate ==
    /\ pc = "call"
    /\ \E d \in 1..31, m \in 1..12, sd \in StatementDates,
          f \in {F_dmY, F_Ymd} :
        /\ OnStatement(d, m, sd)
        /\ call = [fn |-> "parse_and_add_year_to_date",
                   date_string |-> DayMonthText(d, m),
                   statement_date |-> sd,
                   output_date_format |-> f,
                   day |-> d, month |-> m]
    /\ ret = <<>>
    /\ Idle

CallParseDate ==
    /\ pc = "call"
    /\ call.fn = "parse_and_add_year_to_date"
    /\ ret' = parse_and_add_year_to_date(call.date_string,
                  call.statement_date, call.output_date_format)
    /\ pc' = "returned"
    /\ UNCHANGED <<call, pipeline_vars>>

NextDate == CallParseDate

SpecDate == InitDate /\ [][NextDate]_vars

-----------------------------------------------------------------------------
(* Conversions of two-page statements made of every sequence of rows *)

RowPool == {R_prev, R_buy, R_more, R_refund, R_blank, R_footer, R_postonly}

InitRows ==
    /\ pc = "idle"
    /\ run = 1
    /\ \E rows \in {<<>>} \cup SeqsUpTo(RowPool, MaxRows) :
        \E split \in 0..Len(rows) :
            pdf = << [label |-> TRUE, box_text |-> S_10Jan2024,
                      table |-> <<Header(8)>> \o SubSeq(rows, 1, split)],
                     [label |-> FALSE, box_text |-> <<>>,
                      table |-> <<Header(8)>>
                                \o SubSeq(rows, split + 1, Len(rows))] >>
    /\ config_dict = [bank_name |-> "hsbc_hk", date_format |-> F_dmY]
    /\ today = MkDate(2024, 1, 20)
    /\ open_pdfs = 0
    /\ page_num = 0
    /\ statement_date_str = <<>>
    /\ searched = {}
    /\ tables = <<>>
    /\ statement_date = NoDate
    /\ flattened_table = <<>>
    /\ grouped = <<>>
    /\ df = [columns |-> <<>>, rows |-> <<>>]
    /\ csv = NoFile
    /\ error = NoError
    /\ warnings = {}
    /\ history = <<>>
    /\ call = NoCall
    /\ ret = <<>>

NextRows ==
    \/ OpenPdf
    \/ ScanPage
    \/ ParseStatementDate
    \/ FlattenAndClean
    \/ ConvertAndProcess
    \/ WriteCsv

SpecRows == InitRows /\ [][NextRows]_vars

-----------------------------------------------------------------------------
(* Claims about the record formatter's methods *)

Returned(fn) == pc = "returned" /\ call.fn = fn

\* the memo the three optional parts L, O, D compose: the parts present,
\* joined by "; ", then " // " and the import tag; the tag alone when none
Composed(L, O, D) ==
    IF L = <<>> /\ O = <<>> /\ D = <<>> THEN import_info_text
    ELSE L
         \o (IF L # <<>> /\ (O # <<>> \/ D # <<>>) THEN S_SemiSp ELSE <<>>)
         \o O
         \o (IF O # <<>> /\ D # <<>> THEN S_SemiSp ELSE <<>>)
         \o D
         \o S_Slashes \o import_info_text

C6_AmountSign ==
    Returned("add_sign_to_transaction") =>
        LET amount == call.amount
            n == Len(amount)
        IN  IF n >= 2 /\ amount[n - 1] = "C" /\ amount[n] = "R"
            THEN ret \o <<"C", "R">> = amount
            ELSE /\ Len(ret) = n + 1
                 /\ ret[1] = "-"
                 /\ \A i \in 1..n : ret[i + 1] = amount[i]

\* C6 witness: "1,234.56CR" has become "1,234.56"
C6_Witness ==
    /\ Returned("add_sign_to_transaction")
    /\ call.amount = S_1234CR
    /\ ret = S_1234

\* C4: every transaction date is resolved to the full date with the day and
\* month of its text, in the year before the statement's when the month is
\* December and the statement month January, else in the statement's year.
C4_DateResolved ==
    Returned("parse_and_add_year_to_date") =>
        LET y == IF call.month = 12 /\ call.statement_date.month = 1
                 THEN call.statement_date.year - 1
                 ELSE call.statement_date.year
        IN  ret = strftime(MkDate(y, call.month, call.day),
                           call.output_date_format)

-----------------------------------------------------------------------------
(* Claims about the conversion call *)

Finished == pc \in {"done", "failed"}

EightColumns ==
    <<"post_date", "trans_date", "payee", "location", "country",
      "original_currency", "original_amount", "hkd_amount">>

BadPages ==
    {i \in 1..Len(pdf) : pdf[i].table # <<>> /\ Len(pdf[i].table[1]) # 8}

\* C2: when a page's table has not 8 columns the conversion ends in
\* TableSizeError naming the first such page by its 1-based position in the
\* document, with the actual and the expected column counts; nothing is
\* written and no later page is processed.
C2_TableSizeError ==
    BadPages # {} =>
        LET n == Min(BadPages)
        IN  /\ page_num <= n
            /\ pc \in {"idle", "scan", "failed"}
            /\ csv = NoFile
            /\ page_num = n =>
                  /\ pc = "failed"
                  /\ error.type = "TableSizeError"
                  /\ error.page_num = n
                  /\ error.actual = Len(pdf[n].table[1])
                  /\ error.expected = 8

\* C2 witness: the error names page 2, page 1 having yielded no table
C2_Witness ==
    /\ pc = "failed"
    /\ error.type = "TableSizeError"
    /\ error.page_num = 2
    /\ pdf[1].table = <<>>

\* rows i of t that carry a date
Dated(t) == {i \in 1..Len(t) : t[i][1] # <<>> \/ t[i][2] # <<>>}

\* the convert step has grouped a non-empty table
HasGrouped ==
    /\ flattened_table # <<>>
    /\ \/ pc \in {"write", "done"}
       \/ pc = "failed" /\ error.at \in {"create_memo",
                                         "parse_and_add_year_to_date"}

\* C3: the trimmed rows are partitioned into consecutive groups, a group
\* starting exactly at each dated row; each group gives one record, whose
\* non-payee columns are those of the group's first row and whose payee list
\* is the payee cells of the group's rows in order.
C3_Grouping ==
    HasGrouped =>
        LET t == flattened_table
            starts == Dated(t)
            end(s) == IF \E x \in starts : x > s
                      THEN Min({x \in starts : x > s}) - 1
                      ELSE Len(t)
        IN  /\ 1 \in starts
            /\ Len(grouped) = Cardinality(starts)
            /\ \A s \in starts :
                  LET k == Cardinality({x \in starts : x <= s})
                  IN  /\ \A c \in {1, 2, 4, 5, 6, 7, 8} :
                            grouped[k][c] = t[s][c]
                      /\ Len(grouped[k][3]) = end(s) - s + 1
                      /\ \A j \in 1..(end(s) - s + 1) :
                            grouped[k][3][j] = t[s + j - 1][3]

\* C3 witness: three rows grouped into two records, the second dated by its
\* post_date alone and taking one continuation row
C3_Witness ==
    /\ HasGrouped
    /\ Len(flattened_table) = 3
    /\ Len(grouped) = 2
    /\ flattened_table[2][2] = <<>>
    /\ Len(grouped[2][3]) = 2

\* the pages whose label has a non-empty text under it
DatedPages ==
    {i \in 1..Len(pdf) : pdf[i].label /\ Strip(pdf[i].box_text) # <<>>}

\* C7 as stated: a second run on the same document and configuration writes
\* the same file as the first, whatever the current date of each run.
C7_SameOutput ==
    (run = 2 /\ Finished) => csv = history[1].csv

\* C7 amended: a second run on the same document and configuration writes
\* the same file as the first (and ends in the same way) when a statement
\* date text is found in the document or both runs see the same current
\* date.
C7_SameOutputGivenDate ==
    (run = 2 /\ Finished /\ (DatedPages # {} \/ today = history[1].today)) =>
        /\ csv = history[1].csv
        /\ error = history[1].error

\* C7 witness: two runs on different days have written the same two records
C7_Witness ==
    /\ run = 2
    /\ pc = "done"
    /\ DatedPages # {}
    /\ today # history[1].today
    /\ Len(csv.records) = 2
    /\ csv = history[1].csv

\* every row of every page's table is removed by flattening and trimming
NoRowsLeft ==
    LET all == [i \in 1..Len(pdf) |-> pdf[i].table]
        present == SelectSeq(all, LAMBDA tb : tb # <<>>)
        rows == ReplaceNone(DropHeadersAndFlatten(present))
        kept == {i \in 1..Len(rows) :
                    \E c \in 1..Len(rows[i]) : rows[i][c] # <<>>}
        dated == {i \in kept : rows[i][1] # <<>> \/ rows[i][2] # <<>>}
        footers == {i \in kept : IsFooter(rows[i])}
    IN  \A i \in kept :
            \/ \A d \in dated : i < d
            \/ \E f \in footers : f <= i /\ \E d \in dated : d <= f

\* the statement date text used, if there is one, is a date
DateTextReadable ==
    DatedPages # {} =>
        strptime_d_b_Y(Strip(pdf[Min(DatedPages)].box_text)).ok

C9_NoSearchAfterLabel ==
    \A n \in searched : \A m \in 1..(n - 1) : ~pdf[m].label

\* C9 amended: pages are visited in document order; once a page has given a
\* non-empty statement date text, that text is kept and no later page is
\* searched; the text comes from the first page whose label has a non-empty
\* text under it, and every page up to that one has been searched.
C9_DateFromFirstDatedPage ==
    [][/\ (page_num' # page_num /\ run' = run) => page_num' = page_num + 1
       /\ (statement_date_str # <<>> /\ run' = run) =>
              /\ statement_date_str' = statement_date_str
              /\ searched' = searched
       /\ statement_date_str' # <<>> =>
              /\ DatedPages # {}
              /\ statement_date_str' = Strip(pdf[Min(DatedPages)].box_text)
              /\ searched' = 1..Min(DatedPages)
       /\ statement_date_str' = <<>> => searched' = 1..page_num'
      ]_vars

\* C9 witness: the text was taken from page 2, page 1 having a label over
\* an empty box, and the scan is over
C9_Witness ==
    /\ Len(pdf) >= 2
    /\ pdf[1].label
    /\ statement_date_str # <<>>
    /\ searched = {1, 2}
    /\ page_num = 2
    /\ pc = "flatten"

\* C10: by the time a conversion call returns or fails, the document it
\* opened is closed.
C10_DocumentClosed ==
    Finished => open_pdfs = 0

====
